---------------------------- MODULE Spec2Model ----------------------------
(***************************************************************************)
(* Model of app/main.py of lol-matches-api: the normalizer, the cache      *)
(* store, the refresh/update reconciliation engine and its scheduling.     *)
(*                                                                         *)
(* JSON / Python values are tagged records so that values of different     *)
(* Python types can be compared: [k, s, n] with k the type tag.            *)
(***************************************************************************)
EXTENDS Integers, Sequences, FiniteSets, TLC

(***************************************************************************)
(* Python scalar values.                                                   *)
(***************************************************************************)
None == [k |-> "none", s |-> "", n |-> 0]

Str(x) == [k |-> "str", s |-> x, n |-> 0]

Num(i) == [k |-> "int", s |-> "", n |-> i]

\* Python truthiness of a scalar: None, "" and 0 are falsy.
Truthy(v) == \/ v.k = "str" /\ v.s # ""
             \/ v.k = "int" /\ v.n # 0

\* Python `a or b`.
PyOr(a, b) == IF Truthy(a) THEN a ELSE b

(***************************************************************************)
(* Raw provider values that may hold an object: k is "absent" (no key),    *)
(* "none" (null), "empty" ({}), "str" (a truthy value that is no object)   *)
(* or "dict" (a non-empty object; a key it lacks reads as None).           *)
(***************************************************************************)
\* match.get(key) and isinstance(match[key], dict)
IsDictField(x) == x.k = "dict"

(***************************************************************************)
(* _normalize, lines 169-186: the tournament string.  " - ".join raises    *)
(* TypeError on a part that is not a string.                               *)
(***************************************************************************)
LeaguePart(m) ==
    IF IsDictField(m.league) /\ Truthy(m.league.name)
    THEN <<m.league.name>> ELSE <<>>

\* A variant of SeriePart that ignores the serie's season.
SerieOnlyFullName(m) ==
    IF IsDictField(m.serie) /\ Truthy(m.serie.full_name)
    THEN <<m.serie.full_name>> ELSE <<>>

SeriePart(m) ==
    IF IsDictField(m.serie) /\ Truthy(PyOr(m.serie.full_name, m.serie.season))
    THEN <<PyOr(m.serie.full_name, m.serie.season)>> ELSE <<>>

TournamentParts(m) ==
    LET parts == LeaguePart(m) \o SeriePart(m)
    IN  IF parts = <<>> /\ IsDictField(m.tournament) /\ Truthy(m.tournament.name)
        THEN <<m.tournament.name>>
        ELSE parts

RECURSIVE JoinDash(_)
JoinDash(parts) ==
    IF Len(parts) = 1 THEN parts[1].s
    ELSE parts[1].s \o " - " \o JoinDash(Tail(parts))

TournamentRaises(m) == \E i \in DOMAIN TournamentParts(m) : TournamentParts(m)[i].k # "str"

Tournament(m) ==
    IF TournamentParts(m) = <<>> THEN None ELSE Str(JoinDash(TournamentParts(m)))

(***************************************************************************)
(* _normalize, lines 188-195: scores_map.  results is [k, items]; k is     *)
(* "absent", "none", "int" (a truthy non-iterable) or "list".  An entry    *)
(* is [k, team_id, score] with k "dict" or "none" (an entry that is no     *)
(* object: result.get raises AttributeError).                              *)
(***************************************************************************)
ResultsTruthy(m) ==
    \/ m.results.k = "int"
    \/ m.results.k = "list" /\ m.results.items # <<>>

ScoresRaises(m) ==
    /\ ResultsTruthy(m)
    /\ \/ m.results.k = "int"
       \/ \E i \in DOMAIN m.results.items : m.results.items[i].k # "dict"

\* The entries that scores_map[team_id] = score keeps, in order.
ScoreEntries(m) ==
    IF ResultsTruthy(m) /\ m.results.k = "list"
    THEN SelectSeq(m.results.items,
                   LAMBDA r : r.k = "dict" /\ r.team_id.k # "none" /\ r.score.k # "none")
    ELSE <<>>

\* scores_map.get(team_id) if scores_map else None: the last entry written wins.
ScoreOf(m, team_id) ==
    LET es == ScoreEntries(m)
        hits == {i \in DOMAIN es : es[i].team_id = team_id}
    IN  IF hits = {} THEN None
        ELSE es[CHOOSE i \in hits : \A j \in hits : j <= i].score

(***************************************************************************)
(* _normalize, lines 197-209: teams.  opponents is [k, items]; k is        *)
(* "absent" (get's default []), "none" (iterating None raises TypeError)   *)
(* or "list".  An entry is [k, id, name, image_url, logo] with k "wrapped" *)
(* ({"opponent": {...}}), "bare" (the object itself) or "none" (no object: *)
(* opp_obj.get raises AttributeError).                                     *)
(***************************************************************************)
OpponentItems(m) == IF m.opponents.k = "list" THEN m.opponents.items ELSE <<>>

TeamsRaises(m) ==
    \/ m.opponents.k = "none"
    \/ \E i \in DOMAIN OpponentItems(m) : OpponentItems(m)[i].k = "none"

TeamOf(m, opp) ==
    [id |-> opp.id, name |-> opp.name,
     logo |-> PyOr(opp.image_url, opp.logo),
     score |-> ScoreOf(m, opp.id)]

Teams(m) == [i \in DOMAIN OpponentItems(m) |-> TeamOf(m, OpponentItems(m)[i])]

(***************************************************************************)
(* _normalize, lines 211-223: times.  dateparser.parse is modelled on the  *)
(* timestamps of IsoTable (every other string fails to parse); astimezone  *)
(* to Europe/Zurich adds the zone's offset and isoformat / strftime print  *)
(* the converted fields.                                                   *)
(***************************************************************************)
IsoTable ==
    [s \in {"2024-06-01T17:00:00Z", "2024-01-10T23:30:00Z"} |->
        IF s = "2024-06-01T17:00:00Z"
        THEN [y |-> 2024, mo |-> 6, d |-> 1, h |-> 17, mi |-> 0]
        ELSE [y |-> 2024, mo |-> 1, d |-> 10, h |-> 23, mi |-> 30]]

\* LOCAL_TZ, line 41: CEST (+2) from April to September, CET (+1) in winter
\* (the table holds no timestamp of March or October, when the day decides).
ZurichOffset(t) == IF t.mo \in 4..9 THEN 2 ELSE 1

\* dt.astimezone(LOCAL_TZ); no timestamp of the table is on a month's last day.
ToLocal(t) ==
    LET hh == t.h + ZurichOffset(t)
    IN  [y |-> t.y, mo |-> t.mo,
         d |-> IF hh >= 24 THEN t.d + 1 ELSE t.d,
         h |-> hh % 24, mi |-> t.mi, off |-> ZurichOffset(t)]

Pad2(i) == IF i < 10 THEN "0" \o ToString(i) ELSE ToString(i)

IsoFormat(l) ==
    ToString(l.y) \o "-" \o Pad2(l.mo) \o "-" \o Pad2(l.d) \o "T"
      \o Pad2(l.h) \o ":" \o Pad2(l.mi) \o ":00+" \o Pad2(l.off) \o ":00"

\* strftime("%d/%m %H:%M")
HumanFormat(l) == Pad2(l.d) \o "/" \o Pad2(l.mo) \o " " \o Pad2(l.h) \o ":" \o Pad2(l.mi)

\* if begin_at: try parse ... except Exception: pass
Parses(b) == Truthy(b) /\ b.k = "str" /\ b.s \in DOMAIN IsoTable

BeginLocal(b) == IF Parses(b) THEN Str(IsoFormat(ToLocal(IsoTable[b.s]))) ELSE None

BeginLocalHuman(b) == IF Parses(b) THEN Str(HumanFormat(ToLocal(IsoTable[b.s]))) ELSE None

(***************************************************************************)
(* _normalize, lines 225-233: the status label, a lookup that falls back   *)
(* to the raw status (the labels are written here without their accents).  *)
(***************************************************************************)
StatusLabel(st) ==
    IF st = Str("not_started") THEN Str("A venir")
    ELSE IF st = Str("running") THEN Str("En cours")
    ELSE IF st = Str("finished") THEN Str("Termine")
    ELSE IF st = Str("canceled") THEN Str("Annule")
    ELSE IF st = Str("postponed") THEN Str("Reporte")
    ELSE st

(***************************************************************************)
(* _normalize, lines 167-246.  NormalizeRaises: the call raises instead of *)
(* returning; Normalize: the record it returns otherwise, last_update      *)
(* being the clock reading t.                                              *)
(***************************************************************************)
NormalizeRaises(m) == TournamentRaises(m) \/ ScoresRaises(m) \/ TeamsRaises(m)

Normalize(m, t) ==
    [id |-> m.id,
     tournament |-> Tournament(m),
     teams |-> Teams(m),
     begin_at_utc |-> m.begin_at,
     begin_at_local |-> BeginLocal(m.begin_at),
     begin_at_local_human |-> BeginLocalHuman(m.begin_at),
     status |-> m.status,
     status_label |-> StatusLabel(m.status),
     best_of |-> PyOr(m.number_of_games, m.match_type),
     last_update |-> t]


(***************************************************************************)
(* Raw provider records used by the engine.  A well-formed record of the   *)
(* provider carries a league, a serie, two wrapped opponents and one       *)
(* result per opponent.                                                    *)
(***************************************************************************)
Opp(id, name) ==
    [k |-> "wrapped", id |-> Num(id), name |-> Str(name),
     image_url |-> Str("https://cdn/" \o name \o ".png"), logo |-> None]

Res(team, sc) == [k |-> "dict", team_id |-> Num(team), score |-> Num(sc)]

RawMatch(id, status, s1, s2) ==
    [id |-> Num(id),
     league |-> [k |-> "dict", name |-> Str("LFL")],
     serie |-> [k |-> "dict", full_name |-> Str("Summer 2024"), season |-> None],
     tournament |-> [k |-> "dict", name |-> Str("Playoffs")],
     results |-> [k |-> "list", items |-> <<Res(10, s1), Res(20, s2)>>],
     opponents |-> [k |-> "list", items |-> <<Opp(10, "KC"), Opp(20, "VIT")>>],
     begin_at |-> Str("2024-06-01T17:00:00Z"),
     status |-> Str(status),
     number_of_games |-> Num(3),
     match_type |-> Str("best_of")]

Upcoming(id) == RawMatch(id, "not_started", 0, 0)

Live(id) == RawMatch(id, "running", 1, 0)

Final(id) == RawMatch(id, "finished", 2, 1)

\* A record whose opponents field is null.
Broken(id) == [Live(id) EXCEPT !.opponents = [k |-> "none", items |-> <<>>]]

(***************************************************************************)
(* The provider's HTTP answers: [k, body], k the outcome of requests.get   *)
(* ("200", another status, or a transport error) and body the JSON list.   *)
(***************************************************************************)
Http200(body) == [k |-> "200", body |-> body]

HttpError == [k |-> "500", body |-> <<>>]

NetError == [k |-> "neterr", body |-> <<>>]

\* _fetch_upcoming_matches, lines 81-106 (the credential is set).
FetchUpcoming(resp) == IF resp.k = "200" THEN resp.body ELSE <<>>

\* _fetch_running_matches, lines 109-132.
FetchRunning(resp) == IF resp.k = "200" THEN resp.body ELSE <<>>

\* _fetch_match_by_id, lines 135-164: the first element of the list, or None.
NotFound == [found |-> FALSE, rec |-> Upcoming(0)]

FetchMatchById(resp) ==
    IF resp.k = "200" /\ Len(resp.body) > 0
    THEN [found |-> TRUE, rec |-> resp.body[1]]
    ELSE NotFound

(***************************************************************************)
(* Cache store.  The durable record is [k, matches, last_refresh]: k is    *)
(* "absent" (no file), "ok" (a complete JSON document) or "partial" (a     *)
(* file that open(..., "w") truncated and json.dump did not complete).     *)
(* last_refresh 0 is None.                                                 *)
(***************************************************************************)
NoFile == [k |-> "absent", matches |-> <<>>, last_refresh |-> 0]

TornFile == [k |-> "partial", matches |-> <<>>, last_refresh |-> 0]

FileOf(tr, lr) == [k |-> "ok", matches |-> tr, last_refresh |-> lr]

\* How one call of _save_cache can end: the document is written, or the
\* write stops after open(..., "w") truncated the file.  (An open() that
\* fails leaves the file as it was, like a save that is not made.)
SaveOutcomes == {"written", "torn"}

\* A variant that writes the matches without last_refresh.
SaveCacheMatchesOnly(outcome, d, tr, lr) ==
    IF outcome = "written" THEN FileOf(tr, 0) ELSE TornFile

\* _save_cache, lines 68-78: the exception is printed, never raised.
SaveCache(outcome, d, tr, lr) ==
    IF outcome = "written" THEN FileOf(tr, lr) ELSE TornFile

\* _load_cache, lines 52-65, from the globals' initial values [] and None.
LoadCache(d) ==
    IF d.k = "ok" THEN [tracked |-> d.matches, last_refresh |-> d.last_refresh]
    ELSE [tracked |-> <<>>, last_refresh |-> 0]

(***************************************************************************)
(* update_scores, lines 272-310: what the loop does with one slot.         *)
(***************************************************************************)
InFeed(feed, id) == \E i \in DOMAIN feed : feed[i].id = id

\* running_by_id = {m.get("id"): m for m in running_matches}: the last wins.
RunningById(feed, id) ==
    feed[CHOOSE i \in DOMAIN feed :
            feed[i].id = id /\ \A j \in DOMAIN feed : feed[j].id = id => j <= i]

\* byid maps a match id to the provider's answer to filter[id]=<id>.
AnswerFor(byid, id) == IF id \in DOMAIN byid THEN byid[id] ELSE Http200(<<>>)

NoRecord == Normalize(Upcoming(0), 0)

Keep(asked) == [kind |-> "keep", rec |-> NoRecord, asked |-> asked]

Overwrite(raw, t, asked) ==
    IF NormalizeRaises(raw) THEN [kind |-> "raise", rec |-> NoRecord, asked |-> asked]
    ELSE [kind |-> "write", rec |-> Normalize(raw, t), asked |-> asked]

\* A variant without the early return.
UpdateNeverReturnsEarly(tr) == FALSE

\* Lines 256-258: if not _tracked_matches: return.
UpdateReturnsEarly(tr) == tr = <<>>

\* A variant that polls by id whatever the stored status is.
SlotOutcomeAlwaysPolls(match, feed, byid, t) ==
    IF InFeed(feed, match.id) THEN Overwrite(RunningById(feed, match.id), t, FALSE)
    ELSE IF FetchMatchById(AnswerFor(byid, match.id)).found
         THEN Overwrite(FetchMatchById(AnswerFor(byid, match.id)).rec, t, TRUE)
         ELSE Keep(TRUE)

\* A variant that never asks for a match by id.
SlotOutcomeFeedOnly(match, feed, byid, t) ==
    IF InFeed(feed, match.id) THEN Overwrite(RunningById(feed, match.id), t, FALSE)
    ELSE Keep(FALSE)

\* asked: whether _fetch_match_by_id was called for the slot.
SlotOutcome(match, feed, byid, t) ==
    IF InFeed(feed, match.id) THEN Overwrite(RunningById(feed, match.id), t, FALSE)
    ELSE IF match.status = Str("running")
         THEN IF FetchMatchById(AnswerFor(byid, match.id)).found
              THEN Overwrite(FetchMatchById(AnswerFor(byid, match.id)).rec, t, TRUE)
              ELSE Keep(TRUE)
         ELSE Keep(FALSE)

\* _tracked_matches[i] = ...: the write of one slot.
\* Variants of the slot write: one that removes the old record and puts the
\* new one at the end, one that writes the next slot.
WriteSlotAppends(list, i, rec) ==
    Append(SubSeq(list, 1, i - 1) \o SubSeq(list, i + 1, Len(list)), rec)

WriteSlotShifted(list, i, rec) == [list EXCEPT ![(i % Len(list)) + 1] = rec]

WriteSlot(list, i, rec) == [list EXCEPT ![i] = rec]

\* The loop of lines 275-310 from slot i on, run without interruption: the
\* list after it, whether _normalize raised (which ends the call), and the
\* slots a by-id request was made for.
RECURSIVE UpdateFrom(_, _, _, _, _, _)
UpdateFrom(list, i, feed, byid, t, asked) ==
    IF i > Len(list) THEN [tracked |-> list, raised |-> FALSE, asked |-> asked]
    ELSE LET o == SlotOutcome(list[i], feed, byid, t)
             nowAsked == IF o.asked THEN asked \cup {i} ELSE asked
         IN  IF o.kind = "raise"
             THEN [tracked |-> list, raised |-> TRUE, asked |-> nowAsked]
             ELSE UpdateFrom(IF o.kind = "write" THEN WriteSlot(list, i, o.rec) ELSE list,
                             i + 1, feed, byid, t, nowAsked)

\* Line 312: update_scores declares only _tracked_matches global, so the
\* assignment binds a local and the module's _last_refresh keeps its value.
LastRefreshAfterUpdate(lr, t) == lr

(***************************************************************************)
(* refresh_matches_list, lines 324-337, up to the save.                    *)
(***************************************************************************)
\* A variant that replaces the set whatever the fetch returned.
RefreshClearsOnEmpty(tr, lr, raw, t) ==
    IF \E i \in DOMAIN raw : NormalizeRaises(raw[i])
    THEN [tracked |-> tr, last_refresh |-> lr, raised |-> TRUE, replaced |-> FALSE]
    ELSE [tracked |-> [i \in DOMAIN raw |-> Normalize(raw[i], t)],
          last_refresh |-> t, raised |-> FALSE, replaced |-> TRUE]

RefreshResult(tr, lr, raw, t) ==
    IF raw = <<>>
    THEN [tracked |-> tr, last_refresh |-> lr, raised |-> FALSE, replaced |-> FALSE]
    ELSE IF \E i \in DOMAIN raw : NormalizeRaises(raw[i])
    THEN [tracked |-> tr, last_refresh |-> lr, raised |-> TRUE, replaced |-> FALSE]
    ELSE [tracked |-> [i \in DOMAIN raw |-> Normalize(raw[i], t)],
          last_refresh |-> t, raised |-> FALSE, replaced |-> TRUE]

(***************************************************************************)
(* The provider's answers the model draws from.                            *)
(***************************************************************************)
\* TrackedLimit: refresh_matches_list asks for per_page = 5 (line 329).
TrackedLimit == 5

\* The last clock reading: every handler call reads the clock once.
MaxClock == 4

UpcomingResponses ==
    { Http200(<<>>), HttpError,
      Http200(<<Upcoming(1), Upcoming(2)>>),
      Http200(<<Upcoming(2), Upcoming(1)>>),
      Http200(<<Upcoming(1), Broken(2)>>),
      Http200([i \in 1..(TrackedLimit + 1) |-> Upcoming(i)]) }

RunningResponses ==
    { Http200(<<>>), NetError,
      Http200(<<Live(1)>>),
      Http200(<<Live(2), Live(1)>>),
      Http200(<<Broken(1)>>) }

\* The ids the by-id answers are drawn for (the ids that are ever live).
PolledIds == {Num(1), Num(2)}

Other(id) == IF id = Num(1) THEN 2 ELSE 1

ByIdAnswers(id) ==
    { Http200(<<>>), HttpError,
      Http200(<<Live(id.n)>>),
      Http200(<<Final(id.n), Upcoming(id.n)>>),
      Http200(<<Live(Other(id))>>),
      Http200(<<Broken(id.n)>>) }

\* The ids update_scores asks the provider for, given the list and the feed.
Polled(list, feed) ==
    {list[i].id : i \in {j \in DOMAIN list :
                            ~InFeed(feed, list[j].id) /\ list[j].status = Str("running")}}

\* One answer per id; an id that is not asked for gets the empty answer.
AnswersAsked(id, polled) == IF id \in polled THEN ByIdAnswers(id) ELSE {Http200(<<>>)}

ByIdResponses(list, feed) ==
    LET polled == Polled(list, feed)
    IN  {[id \in PolledIds |-> IF id = Num(1) THEN a[1] ELSE a[2]] :
            a \in AnswersAsked(Num(1), polled) \X AnswersAsked(Num(2), polled)}

(***************************************************************************)
(* State.                                                                  *)
(***************************************************************************)
VARIABLES
    tracked,        \* _tracked_matches
    last_refresh,   \* _last_refresh (0: None)
    disk,           \* matches_cache.json
    now,            \* the clock
    phase,          \* "boot" (before startup_event), "up", "down"
    op,             \* the handler that ran last, the provider's answers to it,
                    \* and how it ended
    probe,          \* one call of a function checked on its own: its
                    \* arguments and how it ended
    thr,            \* the handler calls in progress, one per thread
    sched,          \* the scheduler's job update_scores: the run times that
                    \* are due, the instances running, the runs last submitted
    provider        \* the provider's status of each match, where it is fixed

engine == <<tracked, last_refresh, disk, now, phase, op>>

vars == <<tracked, last_refresh, disk, now, phase, op, probe, thr, sched, provider>>

NoById == [id \in PolledIds |-> Http200(<<>>)]

OpRecord(name, resp, byid, raised, save, listed, asked) ==
    [name |-> name, resp |-> resp, byid |-> byid, raised |-> raised,
     save |-> save, listed |-> listed, asked |-> asked]

\* A cache file left by an earlier run of the service at clock reading 1.
EarlierCache ==
    FileOf(<<Normalize(Live(1), 1), Normalize(Upcoming(2), 1)>>, 1)

NoProbe == [raw |-> Upcoming(0), state |-> "none", rec |-> NoRecord]

EngineInit ==
    /\ tracked = <<>>
    /\ last_refresh = 0
    /\ now = 1
    /\ phase = "boot"
    /\ op = OpRecord("none", Http200(<<>>), NoById, FALSE, "none", FALSE, {})

\* The threads handlers run on: the scheduler's update job (max_instances
\* = 1), a request to /lol/matches/update-scores, and a refresh (the cron job
\* or a request to /lol/matches/refresh).
Updaters == {"job", "request"}

Threads == Updaters \cup {"refresh"}

\* A thread's position: pc "idle"; "loop" (update_scores at slot i of the
\* list its loop iterates, with the running feed and by-id answers of the
\* call); "stamp" (refresh_matches_list before line 333); "save" (before
\* _save_cache opens the file); "dump" (the file is open and truncated).
\* own: the list the loop iterates is still the one _tracked_matches names;
\* otherwise snap is that list, which a refresh has replaced.
IdleThread ==
    [pc |-> "idle", i |-> 0, feed |-> <<>>, byid |-> NoById,
     own |-> TRUE, snap |-> <<>>, t |-> 0]

AllIdle == [th \in Threads |-> IdleThread]

\* The scheduler before any run time of the interval trigger has passed.
NoSched == [due |-> 0, instances |-> 0, batch |-> 0, last |-> "none", of |-> 0]

\* Nothing is fixed about the provider's state.
NoProvider == <<>>

Init ==
    /\ EngineInit
    /\ disk \in {NoFile, EarlierCache}
    /\ probe = NoProbe
    /\ thr = AllIdle
    /\ sched = NoSched
    /\ provider = NoProvider

(***************************************************************************)
(* refresh_matches_list, lines 324-337, run without interruption.          *)
(***************************************************************************)
RefreshMatchesList ==
    /\ phase = "up"
    /\ UNCHANGED <<probe, thr, sched, provider>>
    /\ now < MaxClock
    /\ now' = now + 1
    /\ \E resp \in UpcomingResponses, outcome \in SaveOutcomes :
          LET r == RefreshResult(tracked, last_refresh, FetchUpcoming(resp), now')
          IN  /\ tracked' = r.tracked
              /\ last_refresh' = r.last_refresh
              /\ disk' = IF r.replaced
                         THEN SaveCache(outcome, disk, r.tracked, r.last_refresh)
                         ELSE disk
              /\ r.replaced \/ outcome = "written"
              /\ op' = OpRecord("refresh", resp, NoById, r.raised,
                                IF r.replaced THEN outcome ELSE "none", TRUE, {})
    /\ UNCHANGED phase

(***************************************************************************)
(* update_scores, lines 249-321, run without interruption.                 *)
(***************************************************************************)
UpdateScores ==
    /\ phase = "up"
    /\ UNCHANGED <<probe, thr, sched, provider>>
    /\ now < MaxClock
    /\ now' = now + 1
    /\ IF UpdateReturnsEarly(tracked)
       THEN /\ UNCHANGED <<tracked, last_refresh, disk>>
            /\ op' = OpRecord("update", Http200(<<>>), NoById, FALSE, "none", FALSE, {})
       ELSE \E resp \in RunningResponses, outcome \in SaveOutcomes :
            \E byid \in ByIdResponses(tracked, FetchRunning(resp)) :
              LET r == UpdateFrom(tracked, 1, FetchRunning(resp), byid, now', {})
              IN  /\ tracked' = r.tracked
                  /\ last_refresh' = LastRefreshAfterUpdate(last_refresh, now')
                  /\ disk' = IF r.raised THEN disk
                             ELSE SaveCache(outcome, disk, tracked', last_refresh')
                  /\ ~r.raised \/ outcome = "written"
                  /\ op' = OpRecord("update", resp, byid, r.raised,
                                    IF r.raised THEN "none" ELSE outcome, TRUE, r.asked)
    /\ UNCHANGED phase

(***************************************************************************)
(* startup_event, lines 340-369: load the cache, refresh when it holds no  *)
(* match, start the scheduler.  An exception of the refresh leaves the     *)
(* application unstarted.                                                  *)
(***************************************************************************)
StartupEvent ==
    /\ phase = "boot"
    /\ UNCHANGED <<probe, thr, sched, provider>>
    /\ now' = now + 1
    /\ LET loaded == LoadCache(disk)
       IN  IF loaded.tracked # <<>>
           THEN /\ tracked' = loaded.tracked
                /\ last_refresh' = loaded.last_refresh
                /\ disk' = disk
                /\ phase' = "up"
                /\ op' = OpRecord("startup", Http200(<<>>), NoById, FALSE, "none", FALSE, {})
           ELSE \E resp \in UpcomingResponses, outcome \in SaveOutcomes :
                  LET r == RefreshResult(loaded.tracked, loaded.last_refresh,
                                         FetchUpcoming(resp), now')
                  IN  /\ tracked' = r.tracked
                      /\ last_refresh' = r.last_refresh
                      /\ disk' = IF r.replaced
                                 THEN SaveCache(outcome, disk, r.tracked, r.last_refresh)
                                 ELSE disk
                      /\ r.replaced \/ outcome = "written"
                      /\ phase' = IF r.raised THEN "down" ELSE "up"
                      /\ op' = OpRecord("startup", resp, NoById, r.raised,
                                        IF r.replaced THEN outcome ELSE "none", TRUE, {})

(***************************************************************************)
(* shutdown_event, lines 372-377.                                          *)
(***************************************************************************)
ShutdownEvent ==
    /\ phase = "up"
    /\ UNCHANGED <<probe, thr, sched, provider>>
    /\ \E outcome \in SaveOutcomes :
          /\ disk' = SaveCache(outcome, disk, tracked, last_refresh)
          /\ op' = OpRecord("shutdown", Http200(<<>>), NoById, FALSE, outcome, FALSE, {})
    /\ phase' = "down"
    /\ UNCHANGED <<tracked, last_refresh, now>>

Next ==
    \/ StartupEvent
    \/ RefreshMatchesList
    \/ UpdateScores
    \/ ShutdownEvent

Spec == Init /\ [][Next]_vars

(***************************************************************************)
(* The normalizer on its own: _normalize is called once on a raw record    *)
(* drawn from the shapes a provider record's fields can take.              *)
(***************************************************************************)
Dict1(name) == [k |-> "dict", name |-> name]

NotDict(kind) == [k |-> kind, name |-> None]

LeagueShapes ==
    { NotDict("absent"), NotDict("none"), NotDict("empty"), NotDict("str"),
      Dict1(None), Dict1(Str("")), Dict1(Str("LFL")), Dict1(Num(7)) }

SerieDict(full_name, season) ==
    [k |-> "dict", full_name |-> full_name, season |-> season]

SerieShapes ==
    { [k |-> "absent", full_name |-> None, season |-> None],
      [k |-> "none", full_name |-> None, season |-> None],
      SerieDict(None, None),
      SerieDict(Str("Summer 2024"), Str("2024")),
      SerieDict(Str(""), Str("2024")),
      SerieDict(None, Num(2024)) }

TournamentShapes == { NotDict("absent"), NotDict("str"), Dict1(None), Dict1(Str("Worlds")) }

NoObject == [k |-> "none", team_id |-> None, score |-> None]

ResultsShapes ==
    { [k |-> "absent", items |-> <<>>],
      [k |-> "none", items |-> <<>>],
      [k |-> "int", items |-> <<>>],
      [k |-> "list", items |-> <<>>],
      [k |-> "list", items |-> <<Res(10, 2), Res(20, 1)>>],
      [k |-> "list", items |-> <<[k |-> "dict", team_id |-> Num(10), score |-> None],
                                 Res(20, 1), Res(20, 3)>>],
      [k |-> "list", items |-> <<Res(10, 2), NoObject>>] }

BareOpp(id, name) ==
    [k |-> "bare", id |-> id, name |-> name, image_url |-> None,
     logo |-> Str("https://cdn/logo.png")]

OpponentsShapes ==
    { [k |-> "absent", items |-> <<>>],
      [k |-> "none", items |-> <<>>],
      [k |-> "list", items |-> <<>>],
      [k |-> "list", items |-> <<Opp(10, "KC"), Opp(20, "VIT")>>],
      [k |-> "list", items |-> <<BareOpp(Num(10), Str("KC"))>>],
      [k |-> "list", items |-> <<BareOpp(None, None), Opp(20, "VIT")>>],
      [k |-> "list", items |-> <<Opp(10, "KC"),
                                 [k |-> "none", id |-> None, name |-> None,
                                  image_url |-> None, logo |-> None]>>] }

BeginShapes ==
    { None, Str(""), Num(1717261200), Str("not-a-date"),
      Str("2024-06-01T17:00:00Z"), Str("2024-01-10T23:30:00Z") }

RawShapes ==
    { [Upcoming(1) EXCEPT !.league = l, !.serie = s, !.tournament = tn,
                          !.results = r, !.opponents = o, !.begin_at = b] :
        l \in LeagueShapes, s \in SerieShapes, tn \in TournamentShapes,
        r \in ResultsShapes, o \in OpponentsShapes, b \in BeginShapes }

NormalizeInit ==
    /\ EngineInit
    /\ disk = NoFile
    /\ probe \in {[raw |-> m, state |-> "called", rec |-> NoRecord] : m \in RawShapes}
    /\ thr = AllIdle
    /\ sched = NoSched
    /\ provider = NoProvider

NormalizeCall ==
    /\ probe.state = "called"
    /\ probe' = IF NormalizeRaises(probe.raw)
                THEN [probe EXCEPT !.state = "raised"]
                ELSE [probe EXCEPT !.state = "returned", !.rec = Normalize(probe.raw, now)]
    /\ UNCHANGED <<engine, thr, sched, provider>>

SpecNormalize == NormalizeInit /\ [][NormalizeCall]_vars

(***************************************************************************)
(* The provider operations on their own, lines 81-164.  A call is given    *)
(* the credential (set or not) and the answer requests.get would get: a    *)
(* status that is not 200, a transport error, or status 200 with a body    *)
(* that is a JSON list, JSON null, a JSON object or no JSON at all.        *)
(***************************************************************************)
HttpStatus(code) == [k |-> code, body |-> <<>>]

\* requests.Timeout, a RequestException.
Timeout == [k |-> "timeout", body |-> <<>>]

Http200Null == [k |-> "200-null", body |-> <<>>]

Http200Object == [k |-> "200-object", body |-> <<>>]

Http200NoJson == [k |-> "200-nojson", body |-> <<>>]

ListOf(items) == [kind |-> "list", items |-> items]

\* How a call ends: it returns (the result, and whether a request was sent)
\* or raises.
Returned(sent, result) == [state |-> "returned", sent |-> sent, result |-> result]

Raised(sent) == [state |-> "raised", sent |-> sent, result |-> ListOf(<<>>)]

\* Lines 83-106 and 111-132, the same for both list operations.  Only
\* requests.RequestException is caught: len(matches) of a null body raises
\* TypeError; a JSON object is returned as it is; resp.json() of a body that
\* is no JSON raises a RequestException in requests 2.27 and later and a
\* plain ValueError before.
ListCallOutcomes(key, resp) ==
    IF ~key THEN {Returned(FALSE, ListOf(<<>>))}
    ELSE IF resp.k = "200" THEN {Returned(TRUE, ListOf(resp.body))}
    ELSE IF resp.k = "200-null" THEN {Raised(TRUE)}
    ELSE IF resp.k = "200-object" THEN {Returned(TRUE, [kind |-> "object", items |-> <<>>])}
    ELSE IF resp.k = "200-nojson" THEN {Returned(TRUE, ListOf(<<>>)), Raised(TRUE)}
    ELSE {Returned(TRUE, ListOf(<<>>))}

\* Lines 137-164: every Exception is caught (matches[0] of an object raises
\* KeyError inside the try), and a null or empty body is "not found".
ByIdCallOutcomes(key, resp) ==
    IF ~key THEN {Returned(FALSE, NotFound)}
    ELSE {Returned(TRUE, FetchMatchById(resp))}

\* The operation's empty result: the empty list, or None for by-id.
EmptyResult(fn, result) ==
    IF fn = "fetch_by_id" THEN ~result.found
    ELSE result = ListOf(<<>>)

ProviderAnswers ==
    { Http200(<<>>), Http200(<<Upcoming(1)>>), Http200(<<Live(1), Live(2)>>),
      Http200(<<Final(1), Upcoming(1)>>), Http200(<<Broken(1)>>),
      HttpError, HttpStatus("401"), HttpStatus("404"), HttpStatus("429"),
      NetError, Timeout, Http200Null, Http200Object, Http200NoJson }

ProviderOperations == {"fetch_upcoming", "fetch_running", "fetch_by_id"}

ProviderInit ==
    /\ EngineInit
    /\ disk = NoFile
    /\ probe \in {[fn |-> f, key |-> c, resp |-> r, state |-> "called",
                   sent |-> FALSE, result |-> ListOf(<<>>)] :
                     f \in ProviderOperations, c \in BOOLEAN, r \in ProviderAnswers}
    /\ thr = AllIdle
    /\ sched = NoSched
    /\ provider = NoProvider

Finish(o) == probe' = [probe EXCEPT !.state = o.state, !.sent = o.sent, !.result = o.result]

CallFetchUpcoming ==
    /\ probe.state = "called" /\ probe.fn = "fetch_upcoming"
    /\ \E o \in ListCallOutcomes(probe.key, probe.resp) : Finish(o)
    /\ UNCHANGED <<engine, thr, sched, provider>>

CallFetchRunning ==
    /\ probe.state = "called" /\ probe.fn = "fetch_running"
    /\ \E o \in ListCallOutcomes(probe.key, probe.resp) : Finish(o)
    /\ UNCHANGED <<engine, thr, sched, provider>>

CallFetchMatchById ==
    /\ probe.state = "called" /\ probe.fn = "fetch_by_id"
    /\ \E o \in ByIdCallOutcomes(probe.key, probe.resp) : Finish(o)
    /\ UNCHANGED <<engine, thr, sched, provider>>

ProviderNext == CallFetchUpcoming \/ CallFetchRunning \/ CallFetchMatchById

SpecProvider == ProviderInit /\ [][ProviderNext]_vars

(***************************************************************************)
(* get_matches_compact, lines 408-459.  The icons and the bullet of the    *)
(* line are written here in ASCII.                                         *)
(***************************************************************************)
\* How an f-string prints a value.
PyStr(v) ==
    IF v.k = "str" THEN v.s
    ELSE IF v.k = "int" THEN ToString(v.n)
    ELSE "None"

\* Lines 426-427 and 449: team.get('name', '?') of the k-th team, or of {}.
TeamName(teams, k) == IF Len(teams) >= k THEN PyStr(teams[k].name) ELSE "?"

\* Lines 429-430: team.get("score").
TeamScore(teams, k) == IF Len(teams) >= k THEN teams[k].score ELSE None

\* A variant that prints the scores as soon as one team has one.
ScorePartEither(s1, s2) ==
    IF s1 # None \/ s2 # None THEN "[" \o PyStr(s1) \o "-" \o PyStr(s2) \o "]" ELSE "vs"

\* Lines 433-436.
ScorePart(s1, s2) ==
    IF s1 # None /\ s2 # None THEN "[" \o PyStr(s1) \o "-" \o PyStr(s2) \o "]" ELSE "vs"

\* Lines 439-445.
StatusIcon(st) ==
    IF st = Str("not_started") THEN "(clock)"
    ELSE IF st = Str("running") THEN "(live)"
    ELSE IF st = Str("finished") THEN "(done)"
    ELSE IF st = Str("canceled") THEN "(cross)"
    ELSE IF st = Str("postponed") THEN "(pause)"
    ELSE "(calendar)"

\* split(" - ")[0] on the tournament strings the model's records carry; a
\* string that holds no " - " is its own first part.
FirstPartTable ==
    [t \in {"LFL - Summer 2024", "LFL - 2024"} |-> "LFL"]

\* Line 448.
TournamentShort(t) ==
    IF ~Truthy(t) THEN ""
    ELSE IF t.s \in DOMAIN FirstPartTable THEN FirstPartTable[t.s]
    ELSE t.s

\* Line 449.
CompactLine(match) ==
    StatusIcon(match.status) \o " " \o TeamName(match.teams, 1) \o " "
      \o ScorePart(TeamScore(match.teams, 1), TeamScore(match.teams, 2)) \o " "
      \o TeamName(match.teams, 2) \o " * " \o PyStr(match.begin_at_local_human)
      \o " * " \o TournamentShort(match.tournament)

\* The number of slots of the response (the slice of line 424).
CompactSlots == 5

\* Lines 423-450: one line per match of _tracked_matches[:5].
CompactLines(list) ==
    [k \in 1..(IF Len(list) < CompactSlots THEN Len(list) ELSE CompactSlots) |->
        CompactLine(list[k])]

LineAt(lines, k) == IF Len(lines) >= k THEN lines[k] ELSE ""

\* Lines 413-421 and 452-459.
CompactResponse(tr, lr) ==
    IF tr = <<>>
    THEN [match1 |-> "", match2 |-> "", match3 |-> "", match4 |-> "", match5 |-> "",
          last_update |-> lr]
    ELSE [match1 |-> LineAt(CompactLines(tr), 1), match2 |-> LineAt(CompactLines(tr), 2),
          match3 |-> LineAt(CompactLines(tr), 3), match4 |-> LineAt(CompactLines(tr), 4),
          match5 |-> LineAt(CompactLines(tr), 5), last_update |-> lr]

\* Tracked matches of the shapes the provider's records give: both teams
\* with their scores, no result yet, a result for one team only, the second
\* team not known yet, and no team at all under a status the table lacks.
CompactRecords ==
    { Normalize(Live(1), 1),
      Normalize([Upcoming(2) EXCEPT !.results = [k |-> "absent", items |-> <<>>]], 1),
      Normalize([Live(3) EXCEPT !.results = [k |-> "list", items |-> <<Res(10, 1)>>]], 1),
      Normalize([Upcoming(4) EXCEPT
                    !.opponents = [k |-> "list", items |-> <<Opp(10, "KC")>>]], 1),
      Normalize([RawMatch(5, "rescheduled", 0, 0) EXCEPT
                    !.opponents = [k |-> "list", items |-> <<>>],
                    !.league = NotDict("absent"),
                    !.serie = [k |-> "absent", full_name |-> None, season |-> None],
                    !.tournament = Dict1(Str("Worlds")),
                    !.begin_at = None], 1) }

\* The sets the endpoint is called on: up to one match more than it shows.
CompactSets ==
    UNION {[1..n -> CompactRecords] : n \in 0..(CompactSlots + 1)}

CompactInit ==
    /\ tracked \in CompactSets
    /\ last_refresh = 1
    /\ disk = FileOf(tracked, last_refresh)
    /\ now = 1
    /\ phase = "up"
    /\ op = OpRecord("none", Http200(<<>>), NoById, FALSE, "none", FALSE, {})
    /\ probe = [state |-> "none", reply |-> CompactResponse(<<>>, 0)]
    /\ thr = AllIdle
    /\ sched = NoSched
    /\ provider = NoProvider

GetMatchesCompact ==
    /\ phase = "up"
    /\ probe.state = "none"
    /\ probe' = [state |-> "replied", reply |-> CompactResponse(tracked, last_refresh)]
    /\ UNCHANGED <<engine, thr, sched, provider>>

SpecCompact == CompactInit /\ [][GetMatchesCompact]_vars

(***************************************************************************)
(* The handlers as threads.  The scheduler's jobs and the request handlers *)
(* run on pool threads and share _tracked_matches, _last_refresh and the   *)
(* cache file without a lock; a step is what one thread does between two   *)
(* points where another thread can run.  The provider's answers here obey  *)
(* the provider's contract: distinct ids in a list, and by-id records that *)
(* carry the id asked for.                                                 *)
(***************************************************************************)
ThreadUpcoming ==
    { Http200(<<>>),
      Http200(<<Upcoming(2), Upcoming(1)>>),
      Http200(<<Upcoming(2)>>) }

ThreadRunning == { Http200(<<>>), Http200(<<Live(2), Live(1)>>) }

\* One answer per id that is stored as running and absent from the feed
\* when the call starts; any other id gets the empty answer.
ThreadByIdAnswers(id, polled) ==
    IF id \in polled THEN { Http200(<<>>), Http200(<<Final(id.n)>>) }
    ELSE { Http200(<<>>) }

ThreadByIdResponses(list, feed) ==
    LET polled == Polled(list, feed)
    IN  {[id \in PolledIds |-> IF id = Num(1) THEN a[1] ELSE a[2]] :
            a \in ThreadByIdAnswers(Num(1), polled) \X ThreadByIdAnswers(Num(2), polled)}

\* A variant in which the scheduler is started right after the cache is
\* loaded, before the first refresh.
SchedulerRunningFromLoad(ph) == ph \in {"loaded", "ready", "up"}

\* scheduler.start() is the last statement of startup_event (line 368): the
\* jobs fire, and requests are served, once startup_event has returned.
SchedulerRunning(ph) == ph = "up"

\* startup_event in three steps, at one reading of the clock.  Line 346:
\* _load_cache.
StartupLoad ==
    /\ phase = "boot"
    /\ phase' = "loaded"
    /\ now' = now + 1
    /\ tracked' = LoadCache(disk).tracked
    /\ last_refresh' = LoadCache(disk).last_refresh
    /\ op' = OpRecord("startup", Http200(<<>>), NoById, FALSE, "none", FALSE, {})
    /\ UNCHANGED <<disk, probe, thr, sched, provider>>

\* Lines 349-351: refresh_matches_list when no match was loaded.  An
\* exception leaves startup_event, and the application does not start.
StartupRefresh ==
    /\ phase = "loaded"
    /\ tracked = <<>>
    /\ \E resp \in ThreadUpcoming \cup {Http200(<<Broken(1)>>)}, outcome \in SaveOutcomes :
          LET r == RefreshResult(tracked, last_refresh, FetchUpcoming(resp), now)
          IN  /\ tracked' = r.tracked
              /\ last_refresh' = r.last_refresh
              /\ disk' = IF r.replaced
                         THEN SaveCache(outcome, disk, r.tracked, r.last_refresh)
                         ELSE disk
              /\ r.replaced \/ outcome = "written"
              /\ phase' = IF r.raised THEN "down" ELSE "ready"
              /\ op' = OpRecord("startup", resp, NoById, r.raised,
                                IF r.replaced THEN outcome ELSE "none", TRUE, {})
    /\ UNCHANGED <<now, probe, thr, sched, provider>>

\* Lines 353-369: the jobs are added and the scheduler is started.
StartupSchedule ==
    /\ \/ phase = "loaded" /\ tracked # <<>>
       \/ phase = "ready"
    /\ phase' = "up"
    /\ UNCHANGED <<tracked, last_refresh, disk, now, op, probe, thr, sched, provider>>

\* max_instances=1 (line 363).
MaxInstances == 1

\* A variant in which the executor takes every submission.
MayStartAlways(n) == TRUE

\* The executor refuses a run of the job while max_instances instances of
\* it are running; the scheduler then skips the firing.
MayStart(n) == n < MaxInstances

\* A variant that runs the job once for every run time that is due.
RunTimesAll(due) == due

\* coalesce=True (line 364): the run times that are due count as one.
RunTimes(due) == IF due > 0 THEN 1 ELSE 0

\* The run times of the interval trigger that can pass before the scheduler
\* thread gets to process them (a paused process).
MaxDue == 2

\* What the scheduler did with the run times due: it started a run
\* ("started"), skipped them because an instance is running ("skipped"),
\* dropped them as older than misfire_grace_time ("missed"), or ran the job
\* on an empty set, where it returns at once ("noop").  of: how many run
\* times were due; batch: how many runs were made of them.
Decided(what, runs, inst) ==
    [due |-> 0, instances |-> inst, batch |-> runs, last |-> what, of |-> sched.due]

\* A run time of the 10-minute interval passes (line 361); what was done
\* with the earlier ones is history.
IntervalPasses ==
    /\ SchedulerRunning(phase)
    /\ sched.due < MaxDue
    /\ sched' = [NoSched EXCEPT !.due = sched.due + 1, !.instances = sched.instances]
    /\ UNCHANGED <<engine, probe, thr, provider>>

\* update_scores, lines 249-275: the early return on an empty list, the
\* running feed, and the iterator over the list _tracked_matches names.
UpdateEnters(u) ==
    /\ thr[u].pc = "idle"
    /\ now < MaxClock
    /\ ~UpdateReturnsEarly(tracked)
    /\ now' = now + 1
    /\ \E resp \in ThreadRunning :
       \E byid \in ThreadByIdResponses(tracked, FetchRunning(resp)) :
          thr' = [thr EXCEPT ![u] = [IdleThread EXCEPT !.pc = "loop", !.i = 1,
                                        !.feed = FetchRunning(resp), !.byid = byid,
                                        !.t = now']]
    /\ UNCHANGED <<tracked, last_refresh, disk, phase, op, probe, provider>>

\* A request to /lol/matches/update-scores (lines 475-485) calls
\* update_scores on its own thread, whatever the scheduler's job is doing.
UpdateBegin(u) ==
    /\ phase = "up"
    /\ UpdateEnters(u)
    /\ UNCHANGED sched

\* The scheduler processes the run times due while an instance of the job
\* is running: the firing is skipped.
JobSkipped ==
    /\ SchedulerRunning(phase)
    /\ sched.due > 0
    /\ ~MayStart(sched.instances)
    /\ sched' = Decided("skipped", 0, sched.instances)
    /\ UNCHANGED <<engine, probe, thr, provider>>

\* misfire_grace_time=60 (line 365): a run time more than 60 seconds old
\* when the scheduler gets to it is not run.
JobMissed ==
    /\ SchedulerRunning(phase)
    /\ sched.due > 0
    /\ MayStart(sched.instances)
    /\ sched' = Decided("missed", 0, sched.instances)
    /\ UNCHANGED <<engine, probe, thr, provider>>

\* The job runs on an empty set and returns at line 258.
JobNoOp ==
    /\ SchedulerRunning(phase)
    /\ sched.due > 0
    /\ MayStart(sched.instances)
    /\ UpdateReturnsEarly(tracked)
    /\ sched' = Decided("noop", RunTimes(sched.due), sched.instances)
    /\ UNCHANGED <<engine, probe, thr, provider>>

\* The job is submitted and update_scores starts on a pool thread.  (Thread
\* "job" is the first instance; one started beside it is only counted.)
JobStart ==
    /\ SchedulerRunning(phase)
    /\ sched.due > 0
    /\ MayStart(sched.instances)
    /\ sched' = Decided("started", RunTimes(sched.due), sched.instances + 1)
    /\ IF thr["job"].pc = "idle"
       THEN UpdateEnters("job")
       ELSE /\ ~UpdateReturnsEarly(tracked)
            /\ UNCHANGED <<engine, probe, thr, provider>>

\* A run time passes and the scheduler, on time, starts the job: the two
\* steps IntervalPasses and JobStart as one.
JobFires ==
    /\ SchedulerRunning(phase)
    /\ sched.due = 0
    /\ MayStart(sched.instances)
    /\ sched' = [sched EXCEPT !.instances = @ + 1]
    /\ UpdateEnters("job")

\* The executor's count of running instances when thread u ends its call.
Ended(u) == IF u = "job" THEN [sched EXCEPT !.instances = @ - 1] ELSE sched

\* The list the loop of thread u iterates.
Iterated(u) == IF thr[u].own THEN tracked ELSE thr[u].snap

\* Lines 275-310 for one slot.  _normalize raising, or the index being past
\* the end of the list _tracked_matches now names, ends the call.
UpdateSlot(u) ==
    /\ thr[u].pc = "loop"
    /\ thr[u].i <= Len(Iterated(u))
    /\ LET i == thr[u].i
           o == SlotOutcome(Iterated(u)[i], thr[u].feed, thr[u].byid, thr[u].t)
       IN  IF o.kind = "keep"
           THEN /\ thr' = [thr EXCEPT ![u].i = i + 1]
                /\ UNCHANGED <<tracked, sched>>
           ELSE IF o.kind = "raise" \/ i > Len(tracked)
           THEN /\ thr' = [thr EXCEPT ![u] = IdleThread]
                /\ sched' = Ended(u)
                /\ UNCHANGED tracked
           ELSE /\ tracked' = WriteSlot(tracked, i, o.rec)
                /\ thr' = [thr EXCEPT ![u].i = i + 1]
                /\ UNCHANGED sched
    /\ UNCHANGED <<last_refresh, disk, now, phase, op, probe, provider>>

\* Lines 312-313: the loop is over; the time is bound to a local name.
UpdateEnd(u) ==
    /\ thr[u].pc = "loop"
    /\ thr[u].i > Len(Iterated(u))
    /\ thr' = [thr EXCEPT ![u].pc = "save"]
    /\ last_refresh' = LastRefreshAfterUpdate(last_refresh, thr[u].t)
    /\ UNCHANGED <<tracked, disk, now, phase, op, probe, sched, provider>>

\* refresh_matches_list, lines 329-332: the fetch, the normalized list, and
\* the assignment that makes _tracked_matches name the new list.  A loop
\* that iterates the old list keeps iterating it.
RefreshSwap ==
    /\ SchedulerRunning(phase)
    /\ thr["refresh"].pc = "idle"
    /\ now < MaxClock
    /\ now' = now + 1
    /\ \E resp \in ThreadUpcoming :
          LET r == RefreshResult(tracked, last_refresh, FetchUpcoming(resp), now')
          IN  /\ tracked' = r.tracked
              /\ thr' = IF r.replaced
                        THEN [th \in Threads |->
                                IF th = "refresh"
                                THEN [IdleThread EXCEPT !.pc = "stamp", !.t = now']
                                ELSE IF thr[th].pc = "loop" /\ thr[th].own
                                THEN [thr[th] EXCEPT !.own = FALSE, !.snap = tracked]
                                ELSE thr[th]]
                        ELSE thr
    /\ UNCHANGED <<last_refresh, disk, phase, op, probe, sched, provider>>

\* Line 333.
RefreshStamp ==
    /\ thr["refresh"].pc = "stamp"
    /\ last_refresh' = thr["refresh"].t
    /\ thr' = [thr EXCEPT !["refresh"].pc = "save"]
    /\ UNCHANGED <<tracked, disk, now, phase, op, probe, sched, provider>>

\* _save_cache, line 71: open(MATCHES_CACHE_FILE, "w") truncates the file.
SaveOpen(th) ==
    /\ thr[th].pc = "save"
    /\ disk' = TornFile
    /\ thr' = [thr EXCEPT ![th].pc = "dump"]
    /\ UNCHANGED <<tracked, last_refresh, now, phase, op, probe, sched, provider>>

\* _save_cache, lines 72-78: json.dump writes the globals as they are now, or
\* fails; either way the call returns.
SaveDump(th) ==
    /\ thr[th].pc = "dump"
    /\ \E outcome \in SaveOutcomes :
          disk' = SaveCache(outcome, disk, tracked, last_refresh)
    /\ thr' = [thr EXCEPT ![th] = IdleThread]
    /\ sched' = Ended(th)
    /\ UNCHANGED <<tracked, last_refresh, now, phase, op, probe, provider>>

\* shutdown_event: scheduler.shutdown() waits for the jobs in progress.
ThreadShutdown ==
    /\ thr = AllIdle
    /\ ShutdownEvent

ThreadNext ==
    \/ StartupLoad
    \/ StartupRefresh
    \/ StartupSchedule
    \/ JobFires
    \/ UpdateBegin("request")
    \/ \E u \in Updaters : UpdateSlot(u)
    \/ \E u \in Updaters : UpdateEnd(u)
    \/ RefreshSwap
    \/ RefreshStamp
    \/ \E th \in Threads : SaveOpen(th)
    \/ \E th \in Threads : SaveDump(th)
    \/ ThreadShutdown

SpecThreads == Init /\ [][ThreadNext]_vars

(***************************************************************************)
(* Startup and the scheduler's jobs: the cron job refresh_matches_list and *)
(* the interval job update_scores, with the run times of the interval      *)
(* trigger and what the scheduler does with them.  The cache file the      *)
(* application finds is absent, left by an earlier run, truncated by an    *)
(* earlier run, or a document that holds no match.                         *)
(***************************************************************************)
BootInit ==
    /\ EngineInit
    /\ disk \in {NoFile, EarlierCache, TornFile, FileOf(<<>>, 1)}
    /\ probe = NoProbe
    /\ thr = AllIdle
    /\ sched = NoSched
    /\ provider = NoProvider

SchedulerNext ==
    \/ StartupLoad
    \/ StartupRefresh
    \/ StartupSchedule
    \/ IntervalPasses
    \/ JobSkipped
    \/ JobMissed
    \/ JobNoOp
    \/ JobStart
    \/ UpdateSlot("job")
    \/ UpdateEnd("job")
    \/ RefreshSwap
    \/ RefreshStamp
    \/ \E th \in {"job", "refresh"} : SaveOpen(th)
    \/ \E th \in {"job", "refresh"} : SaveDump(th)

SpecScheduler == BootInit /\ [][SchedulerNext]_vars

(***************************************************************************)
(* The update cycles against a provider that answers every request: the    *)
(* tracked set is the one a refresh stored, provider[id] is the status the *)
(* provider holds for match id, /matches/running lists the matches whose   *)
(* status is running and filter[id] answers with the match as it is.  A    *)
(* status moves along the match's life: not_started to running, canceled   *)
(* or postponed, running to finished, canceled or postponed.  The interval *)
(* trigger of lines 358-366 fires for as long as the process is up: the    *)
(* interval keeps elapsing (the fairness of IntervalElapses), and every    *)
(* elapse is a run of update_scores, the runs following one another.  The  *)
(* clock's reading wraps at MaxClock: the stamps are only compared for     *)
(* equality here.                                                          *)
(***************************************************************************)
ProviderStatuses == {"not_started", "running", "finished", "canceled", "postponed"}

StatusMoves(st) ==
    CASE st = "not_started" -> {"running", "canceled", "postponed"}
      [] st = "running" -> {"finished", "canceled", "postponed"}
      [] OTHER -> {}

ProviderRecord(id, st) ==
    CASE st = "not_started" -> Upcoming(id)
      [] st = "running" -> Live(id)
      [] st = "finished" -> Final(id)
      [] OTHER -> RawMatch(id, st, 0, 0)

\* The body of GET /matches/running.
LiveFeed(prov) ==
    (IF prov[Num(1)] = "running" THEN <<ProviderRecord(1, "running")>> ELSE <<>>)
    \o (IF prov[Num(2)] = "running" THEN <<ProviderRecord(2, "running")>> ELSE <<>>)

\* The answers to GET /matches?filter[id]=<id>.
LiveById(prov) == [id \in PolledIds |-> Http200(<<ProviderRecord(id.n, prov[id])>>)]

WrappedClock(t) == IF t < MaxClock THEN t + 1 ELSE 1

LiveInit ==
    /\ tracked = <<Normalize(Upcoming(1), 1), Normalize(Upcoming(2), 1)>>
    /\ last_refresh = 1
    /\ disk = FileOf(tracked, last_refresh)
    /\ now = 1
    /\ phase = "up"
    /\ op = OpRecord("none", Http200(<<>>), NoById, FALSE, "none", FALSE, {})
    /\ probe = NoProbe
    /\ thr = AllIdle
    /\ sched = NoSched
    /\ provider = [id \in PolledIds |-> "not_started"]

ProviderChanges(id, st) ==
    /\ st \in StatusMoves(provider[id])
    /\ provider' = [provider EXCEPT ![id] = st]
    /\ UNCHANGED <<engine, probe, thr, sched>>

\* IntervalTrigger(minutes=10), line 361: the next run time comes.
IntervalElapses == now' = WrappedClock(now)

\* One run of update_scores, lines 249-321, at the trigger's run time.
LiveUpdate ==
    /\ IntervalElapses
    /\ phase = "up"
    /\ ~UpdateReturnsEarly(tracked)
    /\ \E outcome \in SaveOutcomes :
         LET feed == FetchRunning(Http200(LiveFeed(provider)))
             byid == LiveById(provider)
             r == UpdateFrom(tracked, 1, feed, byid, WrappedClock(now), {})
             lr == LastRefreshAfterUpdate(last_refresh, WrappedClock(now))
         IN  /\ ~r.raised \/ outcome = "written"
             /\ tracked' = r.tracked
             /\ last_refresh' = lr
             /\ disk' = IF r.raised THEN disk ELSE SaveCache(outcome, disk, r.tracked, lr)
             /\ op' = OpRecord("update", Http200(LiveFeed(provider)), byid, r.raised,
                               IF r.raised THEN "none" ELSE outcome, TRUE, r.asked)
    /\ UNCHANGED <<phase, probe, thr, sched, provider>>

LiveNext ==
    \/ LiveUpdate
    \/ \E id \in PolledIds, st \in ProviderStatuses : ProviderChanges(id, st)

SpecLive == LiveInit /\ [][LiveNext]_vars /\ WF_now(IntervalElapses)

(***************************************************************************)
(* Properties of the handlers run one at a time (Spec).  A step of a       *)
(* handler is recognised by op', which names the handler and holds the     *)
(* provider's answers to it.                                               *)
(***************************************************************************)
Running == Str("running")

\* The update cycle of this step ran on a non-empty set and reached its end.
UpdateCompleted == op'.name = "update" /\ tracked # <<>> /\ ~op'.raised

\* C1: every update_scores cycle on a non-empty TrackedSet sets last_refresh
\* to the time of the cycle: it differs from its value before the cycle, and
\* it is the value the cycle's save writes.
UpdateStampsLastRefresh ==
    [][UpdateCompleted =>
          /\ last_refresh' = now'
          /\ last_refresh' # last_refresh
          /\ op'.save = "written" => disk'.last_refresh = last_refresh']_vars

\* What the code does instead: the cycle leaves last_refresh as it was and
\* writes that old value.
UpdateKeepsLastRefresh ==
    [][UpdateCompleted =>
          /\ last_refresh' = last_refresh
          /\ op'.save = "written" => disk'.last_refresh = last_refresh]_vars

\* This step is a refresh of a non-empty set whose fetch returned no match.
RefreshFetchedNothing ==
    op'.name = "refresh" /\ tracked # <<>> /\ FetchUpcoming(op'.resp) = <<>>

\* C2: a refresh whose fetch returns no match (an empty list or a provider
\* failure) leaves a non-empty TrackedSet, last_refresh and the durable
\* record as they were.
RefreshNoOpOnEmptyFetch ==
    [][RefreshFetchedNothing => UNCHANGED <<tracked, last_refresh, disk>>]_vars

\* C2 witness: a refresh met a provider failure while matches were tracked.
RefreshNoOpWitness ==
    /\ op.name = "refresh"
    /\ op.resp = HttpError
    /\ tracked # <<>>
    /\ disk.k = "ok"

\* C3: a refresh whose fetch returns at least one match replaces the whole
\* TrackedSet by the normalized fetched records in the provider's order,
\* sets last_refresh, and the durable record holds that set and timestamp
\* (stated here for the refreshes whose write does not fail).
RefreshReplacesTrackedSet ==
    [][(op'.name = "refresh" /\ FetchUpcoming(op'.resp) # <<>> /\ op'.save # "torn") =>
          /\ tracked' = [i \in DOMAIN FetchUpcoming(op'.resp) |->
                            Normalize(FetchUpcoming(op'.resp)[i], now')]
          /\ last_refresh' = now'
          /\ disk' = FileOf(tracked', last_refresh')]_vars

\* C3 where no record makes _normalize raise and the write succeeds.
RefreshReplacesWhenNothingFails ==
    [][(op'.name = "refresh" /\ FetchUpcoming(op'.resp) # <<>>
          /\ ~op'.raised /\ op'.save = "written") =>
          /\ tracked' = [i \in DOMAIN FetchUpcoming(op'.resp) |->
                            Normalize(FetchUpcoming(op'.resp)[i], now')]
          /\ last_refresh' = now'
          /\ disk' = FileOf(tracked', last_refresh')]_vars

\* The slots of the set before this step that update_scores must look up
\* by id: stored as running, and absent from the running feed.
FallbackSlots ==
    {i \in DOMAIN tracked :
        /\ tracked[i].status = Running
        /\ ~InFeed(FetchRunning(op'.resp), tracked[i].id)}

ByIdResult(i) == FetchMatchById(AnswerFor(op'.byid, tracked[i].id))

\* C4: for every slot stored as running and absent from the running feed a
\* by-id fetch is made; a record it returns is normalized into the slot, and
\* when it returns nothing the slot is unchanged and the cycle goes on.
UpdateFallback ==
    [][(op'.name = "update" /\ tracked # <<>>) =>
          \A i \in FallbackSlots :
             /\ i \in op'.asked
             /\ ByIdResult(i).found => tracked'[i] = Normalize(ByIdResult(i).rec, now')
             /\ ~ByIdResult(i).found => tracked'[i] = tracked[i] /\ ~op'.raised]_vars

\* C4 for the cycles in which _normalize does not raise.
UpdateFallbackWhenNoRaise ==
    [][(op'.name = "update" /\ tracked # <<>> /\ ~op'.raised) =>
          \A i \in FallbackSlots :
             /\ i \in op'.asked
             /\ ByIdResult(i).found => tracked'[i] = Normalize(ByIdResult(i).rec, now')
             /\ ~ByIdResult(i).found => tracked'[i] = tracked[i]]_vars

\* Every record a by-id answer returns carries the id it was asked for.
IdFaithful(byid) ==
    \A id \in DOMAIN byid :
        FetchMatchById(byid[id]).found => FetchMatchById(byid[id]).rec.id = id

Ids(list) == [i \in DOMAIN list |-> list[i].id]

\* C5: an update_scores cycle leaves the length of the TrackedSet and the id
\* at every position unchanged, provided each by-id record carries the id it
\* was looked up by (a running-feed record is looked up by its own id).
UpdatePreservesOrder ==
    [][(op'.name = "update" /\ IdFaithful(op'.byid)) => Ids(tracked') = Ids(tracked)]_vars

\* C5 witness: a cycle that rewrote a slot from the feed and another by id.
UpdatePreservesOrderWitness ==
    /\ op.name = "update"
    /\ IdFaithful(op.byid)
    /\ ~op.raised
    /\ op.asked # {}
    /\ \E i \in DOMAIN tracked : i \notin op.asked /\ tracked[i].last_update = now
    /\ \E i \in op.asked : tracked[i].last_update = now

\* A list without its timestamps.
StripTimes(list) == [i \in DOMAIN list |-> [list[i] EXCEPT !.last_update = 0]]

\* The set after one more cycle against the same provider answers.
UpdatedAgain ==
    UpdateFrom(tracked, 1, FetchRunning(op.resp), op.byid, now + 1, {}).tracked

\* C6 as stated: after a cycle, a second cycle with the same running feed
\* and the same by-id answers changes nothing but timestamps.
UpdateIdempotent ==
    (op.name = "update" /\ tracked # <<>>) =>
        StripTimes(UpdatedAgain) = StripTimes(tracked)

\* C6 amended: the same, for by-id answers that carry the id asked for.
UpdateIdempotentIdFaithful ==
    (op.name = "update" /\ tracked # <<>> /\ IdFaithful(op.byid)) =>
        StripTimes(UpdatedAgain) = StripTimes(tracked)

\* C6 witness: a cycle wrote one slot from the feed and another from a by-id
\* record that is still running, so that the second cycle asks for it again
\* and rewrites both slots.
UpdateIdempotentWitness ==
    /\ op.name = "update"
    /\ IdFaithful(op.byid)
    /\ ~op.raised
    /\ \E i \in op.asked : tracked[i].last_update = now /\ tracked[i].status = Running
    /\ \E i \in DOMAIN tracked : i \notin op.asked /\ tracked[i].last_update = now
    /\ UpdatedAgain # tracked

\* The running feed of this step's update cycle.
Feed == FetchRunning(op'.resp)

\* C15: every slot whose id is in the running feed of an update cycle holds
\* after the cycle normalize(the feed's record of that id), whole, and no
\* by-id request is made for it.
UpdateOverwritesInFeed ==
    [][(op'.name = "update" /\ tracked # <<>>) =>
          \A i \in DOMAIN tracked :
             InFeed(Feed, tracked[i].id) =>
                /\ tracked'[i] = Normalize(RunningById(Feed, tracked[i].id), now')
                /\ i \notin op'.asked]_vars

\* C15 for the cycles in which _normalize does not raise.
UpdateOverwritesInFeedWhenNoRaise ==
    [][(op'.name = "update" /\ tracked # <<>> /\ ~op'.raised) =>
          \A i \in DOMAIN tracked :
             InFeed(Feed, tracked[i].id) =>
                /\ tracked'[i] = Normalize(RunningById(Feed, tracked[i].id), now')
                /\ i \notin op'.asked]_vars

\* C16: an update cycle makes one running-feed request; it makes a by-id
\* request for a slot exactly when the slot is stored as running and its id
\* is absent from the feed; a slot that is neither in the feed nor stored as
\* running is left as it was, last_update included.
UpdatePollsOnlyLive ==
    [][(op'.name = "update" /\ tracked # <<>>) =>
          /\ op'.listed
          /\ \A i \in DOMAIN tracked :
                /\ i \in op'.asked <=>
                      (tracked[i].status = Running /\ ~InFeed(Feed, tracked[i].id))
                /\ (tracked[i].status # Running /\ ~InFeed(Feed, tracked[i].id)) =>
                      tracked'[i] = tracked[i]]_vars

\* C16 for the cycles in which _normalize does not raise.
UpdatePollsOnlyLiveWhenNoRaise ==
    [][(op'.name = "update" /\ tracked # <<>> /\ ~op'.raised) =>
          /\ op'.listed
          /\ \A i \in DOMAIN tracked :
                /\ i \in op'.asked <=>
                      (tracked[i].status = Running /\ ~InFeed(Feed, tracked[i].id))
                /\ (tracked[i].status # Running /\ ~InFeed(Feed, tracked[i].id)) =>
                      tracked'[i] = tracked[i]]_vars

\* C17: update_scores on an empty TrackedSet makes no provider request,
\* changes neither the set nor last_refresh, and writes nothing.
UpdateOnEmptyIsNoOp ==
    [][(op'.name = "update" /\ tracked = <<>>) =>
          /\ UNCHANGED <<tracked, last_refresh, disk>>
          /\ ~op'.listed
          /\ op'.asked = {}
          /\ op'.save = "none"]_vars

\* C17 witness: the application started without a cache and without a match
\* from the provider, and update_scores ran.
UpdateOnEmptyWitness ==
    /\ op.name = "update"
    /\ tracked = <<>>
    /\ ~op.listed
    /\ disk = NoFile

\* This step is a refresh (at startup or later) that fetched a match and
\* reached its end.
RefreshCompleted ==
    op'.name \in {"refresh", "startup"} /\ FetchUpcoming(op'.resp) # <<>> /\ ~op'.raised

\* C18: a completed refresh that fetched a match, a completed update cycle
\* on a non-empty set and shutdown each write the durable record; when the
\* write succeeds the record holds the in-memory set and last_refresh; when
\* it fails the operation completes with the in-memory state it would have
\* had.
WriteThrough ==
    [][/\ (RefreshCompleted \/ UpdateCompleted \/ op'.name = "shutdown") =>
             op'.save \in SaveOutcomes
       /\ op'.save = "written" =>
             /\ disk'.k = "ok"
             /\ disk'.matches = tracked'
             /\ disk'.last_refresh = last_refresh'
       /\ (op'.save = "torn" /\ op'.name = "shutdown") =>
             UNCHANGED <<tracked, last_refresh>> /\ phase' = "down"
       /\ (op'.save = "torn" /\ op'.name \in {"refresh", "startup"}) =>
             /\ tracked' = [i \in DOMAIN FetchUpcoming(op'.resp) |->
                               Normalize(FetchUpcoming(op'.resp)[i], now')]
             /\ last_refresh' = now'
             /\ phase' = "up"
       /\ (op'.save = "torn" /\ op'.name = "update") =>
             /\ tracked' = UpdateFrom(tracked, 1, Feed, op'.byid, now', {}).tracked
             /\ ~op'.raised]_vars

\* C18 witness: an update cycle that changed no slot wrote the record.
WriteThroughWitness ==
    /\ op.name = "update"
    /\ op.save = "written"
    /\ tracked # <<>>
    /\ \A i \in DOMAIN tracked : tracked[i].last_update # now
    /\ disk = FileOf(tracked, last_refresh)

\* C8: the TrackedSet holds at most TrackedLimit matches in every state.
TrackedSetBounded == Len(tracked) <= TrackedLimit

(***************************************************************************)
(* Properties of the normalizer (SpecNormalize).                           *)
(***************************************************************************)
TrackedMatchFields ==
    {"id", "tournament", "teams", "begin_at_utc", "begin_at_local",
     "begin_at_local_human", "status", "status_label", "best_of", "last_update"}

\* C10: _normalize never raises, whatever the shape of league, serie,
\* tournament, results, opponents and begin_at, and returns a record with
\* all ten fields.
NormalizeTotal ==
    /\ probe.state # "raised"
    /\ probe.state = "returned" => DOMAIN probe.rec = TrackedMatchFields

\* What holds of the code: a call that returns gives all ten fields, with
\* the local times empty when begin_at does not parse.
NormalizeReturnsWellFormed ==
    probe.state = "returned" =>
        /\ DOMAIN probe.rec = TrackedMatchFields
        /\ ~Parses(probe.raw.begin_at) =>
              probe.rec.begin_at_local = None /\ probe.rec.begin_at_local_human = None

\* The name of an object field, when the field is an object with a
\* non-empty name.
NameOf(x, v) == IF IsDictField(x) /\ Truthy(v) THEN v ELSE None

\* The tournament string as the claim words it: league name and serie name
\* (full_name, else season) joined when both are there, the one that is
\* there, else the tournament's own name, else nothing.
ClaimedTournament(m) ==
    LET l == NameOf(m.league, m.league.name)
        s == IF Truthy(NameOf(m.serie, m.serie.full_name))
             THEN NameOf(m.serie, m.serie.full_name)
             ELSE NameOf(m.serie, m.serie.season)
        t == NameOf(m.tournament, m.tournament.name)
    IN  IF Truthy(l) /\ Truthy(s) THEN Str(l.s \o " - " \o s.s)
        ELSE IF Truthy(l) THEN l
        ELSE IF Truthy(s) THEN s
        ELSE IF Truthy(t) THEN t
        ELSE None

\* C12: the tournament string of a raw match is league name and serie name
\* joined by " - ", or the single one present, or the tournament's own name,
\* or absent; league "LFL" with serie full_name "Summer 2024" gives
\* "LFL - Summer 2024", and tournament name "Worlds" alone gives "Worlds".
\* Stated of lines 169-186 for names that are strings, and of the record
\* _normalize returns.
TournamentDerivation ==
    /\ ~TournamentRaises(probe.raw) =>
          Tournament(probe.raw) = ClaimedTournament(probe.raw)
    /\ probe.state = "returned" =>
          /\ probe.rec.tournament = ClaimedTournament(probe.raw)
          /\ (probe.raw.league = Dict1(Str("LFL"))
                /\ probe.raw.serie = SerieDict(Str("Summer 2024"), Str("2024"))) =>
                probe.rec.tournament = Str("LFL - Summer 2024")
          /\ (~IsDictField(probe.raw.league) /\ ~IsDictField(probe.raw.serie)
                /\ probe.raw.tournament = Dict1(Str("Worlds"))) =>
                probe.rec.tournament = Str("Worlds")

\* C12 witness: a returned record whose serie name is the season, the
\* full_name being empty, joined to the league name.
TournamentDerivationWitness ==
    /\ probe.state = "returned"
    /\ probe.raw.league = Dict1(Str("LFL"))
    /\ probe.raw.serie = SerieDict(Str(""), Str("2024"))
    /\ probe.rec.tournament = Str("LFL - 2024")

(***************************************************************************)
(* Properties of the handlers run as threads (SpecThreads).                *)
(***************************************************************************)
\* C7: no two entries of the TrackedSet have the same id, in every state,
\* also when a refresh runs while an update cycle is inside its loop.
TrackedIdsUnique ==
    \A i, j \in DOMAIN tracked : i # j => tracked[i].id # tracked[j].id

\* C9: at every instant the durable record is absent or a complete record.
DurableRecordComplete == disk.k \in {"absent", "ok"}

(***************************************************************************)
(* Properties of the provider operations (SpecProvider).                   *)
(***************************************************************************)
\* The answer is a list the operation can use.
UsableAnswer(resp) == resp.k = "200"

\* C11: each provider operation is fail-soft: without a credential it gives
\* its empty result and sends no request; a status that is not 200, a
\* timeout, a network error or an unusable body gives the empty result; and
\* no call raises.
ProviderFailSoft ==
    probe.state # "called" =>
        /\ probe.state = "returned"
        /\ ~probe.key => ~probe.sent /\ EmptyResult(probe.fn, probe.result)
        /\ ~UsableAnswer(probe.resp) => EmptyResult(probe.fn, probe.result)

\* What holds of the code: the same for the answers that are not status
\* 200 (another status, a timeout, a network error) and for a missing
\* credential, and for every answer to the by-id operation.
ProviderFailSoftOnTransport ==
    (probe.state # "called"
        /\ (~probe.key \/ probe.fn = "fetch_by_id"
              \/ probe.resp.k \in {"500", "401", "404", "429", "neterr", "timeout"})) =>
        /\ probe.state = "returned"
        /\ ~probe.key => ~probe.sent
        /\ ~UsableAnswer(probe.resp) \/ ~probe.key => EmptyResult(probe.fn, probe.result)

(***************************************************************************)
(* Properties of the compact endpoint (SpecCompact).                       *)
(***************************************************************************)
SlotKey(k) == "match" \o ToString(k)

BothScored(match) ==
    /\ Len(match.teams) >= 2
    /\ match.teams[1].score # None
    /\ match.teams[2].score # None

\* The line as the claim words it: "vs" unless both teams have a score, and
\* '?' for a team that is missing.
ClaimedLine(match) ==
    StatusIcon(match.status) \o " "
      \o (IF Len(match.teams) >= 1 THEN PyStr(match.teams[1].name) ELSE "?") \o " "
      \o (IF BothScored(match)
          THEN "[" \o PyStr(match.teams[1].score) \o "-" \o PyStr(match.teams[2].score) \o "]"
          ELSE "vs") \o " "
      \o (IF Len(match.teams) >= 2 THEN PyStr(match.teams[2].name) ELSE "?")
      \o " * " \o PyStr(match.begin_at_local_human)
      \o " * " \o TournamentShort(match.tournament)

\* C13: the response has the five keys match1..match5; slot k is the line of
\* the k-th tracked match, not empty, when k <= min(n, 5), and the empty
\* string otherwise; in a line the score part is "vs" unless both teams have
\* a score and a missing team is '?'.
CompactFiveSlots ==
    probe.state = "replied" =>
        /\ DOMAIN probe.reply = {SlotKey(k) : k \in 1..5} \cup {"last_update"}
        /\ \A k \in 1..5 :
              IF k <= Len(tracked)
              THEN /\ probe.reply[SlotKey(k)] = ClaimedLine(tracked[k])
                   /\ probe.reply[SlotKey(k)] # ""
              ELSE probe.reply[SlotKey(k)] = ""

\* C13 witness: a set of two matches, the second with one team only and so
\* no score: match1 and match2 are lines, match3..match5 are empty.
CompactFiveSlotsWitness ==
    /\ probe.state = "replied"
    /\ Len(tracked) = 2
    /\ Len(tracked[2].teams) = 1
    /\ probe.reply.match1 = "(live) KC [1-0] VIT * 01/06 19:00 * LFL"
    /\ probe.reply.match2 = "(clock) KC vs ? * 01/06 19:00 * LFL"
    /\ probe.reply.match3 = "" /\ probe.reply.match5 = ""

(***************************************************************************)
(* Properties of startup and of the scheduler's jobs (SpecScheduler).      *)
(***************************************************************************)
\* C14: at most one scheduler-started run of update_scores is in progress;
\* run times that come due while a run is in progress start nothing; and the
\* run times missed during a pause are made into at most one run.
OverlapPrevention ==
    [][/\ sched'.instances <= 1
       /\ sched'.instances = 1 <=> thr'["job"].pc # "idle"
       /\ sched'.batch <= 1
       /\ (sched.instances >= 1 /\ sched.due > 0 /\ sched'.due = 0) =>
             /\ sched'.last = "skipped"
             /\ sched'.instances = sched.instances
             /\ UNCHANGED <<thr, tracked, now>>]_vars

\* C14 witness: two run times came due while the job was inside its loop,
\* and the scheduler skipped them.
OverlapPreventionWitness ==
    /\ sched.last = "skipped"
    /\ sched.of = 2
    /\ sched.instances = 1
    /\ thr["job"].pc = "loop"

\* Two missed run times were made into one run, which is in progress.
CoalescedRunReached ==
    /\ sched.last = "started"
    /\ sched.of = 2
    /\ sched.batch = 1
    /\ thr["job"].pc = "loop"

\* The cache file holds no match the application can load.
NothingToLoad(d) == d.k \in {"absent", "partial"} \/ d.matches = <<>>

\* C19: startup loads the cache first; it calls refresh_matches_list exactly
\* when no match was loaded (no file, an unreadable file, a file without
\* matches), and a loaded set is used as it is, without a provider call; the
\* scheduler starts after that, so no job runs and no run time is counted
\* before, and not at all when the refresh raises.
StartupOrdering ==
    [][/\ phase' \in {"boot", "loaded", "ready"} => thr' = AllIdle /\ sched' = NoSched
       /\ phase' = "down" => thr' = AllIdle
       /\ (phase = "boot" /\ phase' # "boot") =>
             /\ tracked' = LoadCache(disk).tracked
             /\ last_refresh' = LoadCache(disk).last_refresh
             /\ tracked' = <<>> <=> NothingToLoad(disk)
             /\ ~op'.listed
             /\ UNCHANGED disk
       /\ (phase = "loaded" /\ phase' # "loaded") =>
             /\ op'.listed <=> tracked = <<>>
             /\ tracked # <<>> => UNCHANGED <<tracked, last_refresh, disk, op>>
       /\ (phase # "up" /\ phase' = "up") =>
             \/ phase = "loaded" /\ ~op.listed /\ tracked # <<>>
             \/ phase = "ready" /\ op.listed /\ ~op.raised]_vars

\* C19 witness: the cache file was unusable or empty, the refresh at startup
\* fetched the set, and afterwards the scheduler's update job is running.
StartupOrderingWitness ==
    /\ phase = "up"
    /\ op.name = "startup"
    /\ op.listed
    /\ FetchUpcoming(op.resp) # <<>>
    /\ thr["job"].pc = "loop"

(***************************************************************************)
(* C20.  Tracked matches are kept current: a status the provider settles   *)
(* on for a tracked match (running, finished, canceled or postponed) is    *)
(* eventually the stored status of the match's slot, also for a slot       *)
(* stored as not_started whose match is never in the running feed.         *)
(***************************************************************************)
SettledStatuses == {"running", "finished", "canceled", "postponed"}

\* Slot n holds match n: LiveInit, and the slots are written in place.
StoredAs(n, st) == tracked[n].status = Str(st)

LeftBehind ==
    /\ op.name = "update"
    /\ provider[Num(1)] = "canceled"
    /\ StoredAs(1, "not_started")

=============================================================================
